---- MODULE Spec2Model ----
(***************************************************************************)
(* A model of trianglem_extractor.py: the membody decoder                  *)
(* (MemBodyExtractor), the memfs index scanner (MemFSParser), the segment   *)
(* splitter (find_file_data), the dialogue extractor (TATParser) and the    *)
(* per-volume loop of extract_game_files.                                   *)
(*                                                                         *)
(* Bytes are integers 0..255, byte strings and texts are sequences         *)
(* (texts: sequences of Unicode code points).  Python offsets are 0-based;  *)
(* sequence indices are 1-based, so byte k of a buffer is s[k + 1].          *)
(***************************************************************************)
EXTENDS Integers, Sequences, FiniteSets, TLC

VARIABLES
    \* MemBodyExtractor
    data,             \* self.data
    compress_offset,  \* self.compress_offset (-1: attribute not set)
    bpc,              \* "new" | "constructed" | "returned" | "raised"
    err,              \* which error was raised ("none" if none)
    out,              \* the value decompress() returned
    built,            \* how the input was put together (never read by the code)
    \* extract_game_files
    volumes,          \* the fsroot directories, in sorted order
    vol,              \* index of the volume the loop is at
    gpc,              \* "loop" | "done" | "raised"
    processed,        \* volume index -> payload, for the volumes completed
    \* MemBodyExtractor.find_file_data
    decompressed,     \* the payload passed in
    files,            \* the index entries passed in
    spc,              \* "new" | "returned"
    segments,         \* the slices cut, in the order the loop cut them
    result,           \* the dict returned: entries in insertion order
    \* MemFSParser
    memfs,            \* self.data
    ipc,              \* "new" | "parsed"
    paths,            \* _parse's local list of (offset, path)
    entries,          \* self.files
    \* TATParser.extract_dialogue
    filename,         \* self.filename
    lines,            \* self.text_content.split('\n')
    line_num,         \* the loop's index (0-based) of the line it is at
    current_speaker,  \* None, or the text the last speaker line set
    results,          \* the list returned
    dpc               \* "loop" | "returned"

bodyVars == <<data, compress_offset, bpc, err, out, built>>
batchVars == <<volumes, vol, gpc, processed>>
splitVars == <<decompressed, files, spc, segments, result>>
indexVars == <<memfs, ipc, paths, entries>>
dlgVars == <<filename, lines, line_num, current_speaker, results, dpc>>
vars == <<bodyVars, batchVars, splitVars, indexVars, dlgVars>>

----------------------------------------------------------------------------
(* Python helpers *)

Min(a, b) == IF a < b THEN a ELSE b
Max(a, b) == IF a > b THEN a ELSE b

\* s[a:b] for 0 <= a
Slice(s, a, b) == SubSeq(s, a + 1, Min(b, Len(s)))

\* s[a:]
SliceFrom(s, a) == SubSeq(s, a + 1, Len(s))

\* all sequences over S of length at most n
SeqsUpTo(S, n) == UNION {[1..k -> S] : k \in 0..n}

\* s.startswith(t)
StartsWith(s, t) == Len(t) <= Len(s) /\ SubSeq(s, 1, Len(t)) = t

\* s.find(t): the 0-based index of the first occurrence, -1 when there is none
RECURSIVE FindAt(_, _, _)
FindAt(s, t, i) ==
    IF i + Len(t) > Len(s) THEN -1
    ELSE IF SubSeq(s, i + 1, i + Len(t)) = t THEN i
    ELSE FindAt(s, t, i + 1)

Find(s, t) == FindAt(s, t, 0)

\* t in s
Contains(s, t) == Find(s, t) # -1

\* s.lstrip(chars), s.rstrip(chars), s.strip(chars) for a set of characters
RECURSIVE LStripChars(_, _)
LStripChars(s, C) ==
    IF s # <<>> /\ Head(s) \in C THEN LStripChars(Tail(s), C) ELSE s

RECURSIVE RStripChars(_, _)
RStripChars(s, C) ==
    IF s # <<>> /\ s[Len(s)] \in C THEN RStripChars(SubSeq(s, 1, Len(s) - 1), C)
    ELSE s

StripChars(s, C) == RStripChars(LStripChars(s, C), C)

\* bytes.decode('utf-8', errors='ignore'): each well-formed sequence gives
\* its code point, every byte that starts none is dropped
IsCont(b, i) == i <= Len(b) /\ b[i] >= 128 /\ b[i] <= 191

RECURSIVE DecodeFrom(_, _)
DecodeFrom(b, i) ==
    IF i > Len(b) THEN <<>>
    ELSE LET c == b[i] IN
    IF c < 128 THEN <<c>> \o DecodeFrom(b, i + 1)
    ELSE IF c >= 194 /\ c <= 223 /\ IsCont(b, i + 1)
        THEN <<(c - 192) * 64 + (b[i + 1] - 128)>> \o DecodeFrom(b, i + 2)
    ELSE IF /\ c >= 224 /\ c <= 239 /\ IsCont(b, i + 1) /\ IsCont(b, i + 2)
            /\ (c = 224 => b[i + 1] >= 160) /\ (c = 237 => b[i + 1] <= 159)
        THEN <<(c - 224) * 4096 + (b[i + 1] - 128) * 64 + (b[i + 2] - 128)>>
                \o DecodeFrom(b, i + 3)
    ELSE IF /\ c >= 240 /\ c <= 244
            /\ IsCont(b, i + 1) /\ IsCont(b, i + 2) /\ IsCont(b, i + 3)
            /\ (c = 240 => b[i + 1] >= 144) /\ (c = 244 => b[i + 1] <= 143)
        THEN <<(c - 240) * 262144 + (b[i + 1] - 128) * 4096
                  + (b[i + 2] - 128) * 64 + (b[i + 3] - 128)>>
                \o DecodeFrom(b, i + 4)
    ELSE DecodeFrom(b, i + 1)

DecodeIgnore(b) == DecodeFrom(b, 1)

----------------------------------------------------------------------------
(* zlib, as far as decompress() exercises it.  A deflate stream is a run of  *)
(* blocks read bit by bit, least significant bit of each byte first;        *)
(* Huffman codes are packed most significant bit first.                      *)

Bit(s, p) == (s[(p \div 8) + 1] \div (2 ^ (p % 8))) % 2

\* the n-bit Huffman code starting at bit p
RECURSIVE Code(_, _, _)
Code(s, p, n) == IF n = 0 THEN 0 ELSE 2 * Code(s, p, n - 1) + Bit(s, p + n - 1)

\* Adler-32 of a byte string, as the pair (a, b)
RECURSIVE Adler(_, _, _)
Adler(s, a, b) ==
    IF s = <<>> THEN <<a, b>>
    ELSE LET a2 == (a + Head(s)) % 65521
         IN  Adler(Tail(s), a2, (b + a2) % 65521)

\* the four big-endian bytes of the checksum
AdlerBytes(s) ==
    LET ab == Adler(s, 1, 0)
    IN  <<ab[2] \div 256, ab[2] % 256, ab[1] \div 256, ab[1] % 256>>

RECURSIVE InflateBlocks(_, _, _)
RECURSIVE InflateFixed(_, _, _, _)

\* Symbols of a fixed-Huffman block from bit p on.  st is "end" (final block
\* closed at bit pos), "need" (input ran out), "error" (invalid data) or
\* "unmodelled" (a length/distance pair or a dynamic block: not decoded here).
InflateFixed(s, p, o, bfinal) ==
    IF p + 7 > 8 * Len(s) THEN [st |-> "need", out |-> o, pos |-> p]
    ELSE LET c7 == Code(s, p, 7) IN
    IF c7 = 0 THEN
        IF bfinal = 1 THEN [st |-> "end", out |-> o, pos |-> p + 7]
        ELSE InflateBlocks(s, p + 7, o)
    ELSE IF c7 <= 23 THEN [st |-> "unmodelled", out |-> o, pos |-> p]
    ELSE IF p + 8 > 8 * Len(s) THEN [st |-> "need", out |-> o, pos |-> p]
    ELSE LET c8 == Code(s, p, 8) IN
    IF c8 <= 191 THEN InflateFixed(s, p + 8, Append(o, c8 - 48), bfinal)
    ELSE IF c8 <= 197 THEN [st |-> "unmodelled", out |-> o, pos |-> p]
    ELSE IF c8 <= 199 THEN [st |-> "error", out |-> o, pos |-> p]
    ELSE IF p + 9 > 8 * Len(s) THEN [st |-> "need", out |-> o, pos |-> p]
    ELSE InflateFixed(s, p + 9, Append(o, 144 + Code(s, p, 9) - 400), bfinal)

\* The blocks of a deflate stream from bit p on.
InflateBlocks(s, p, o) ==
    IF p + 3 > 8 * Len(s) THEN [st |-> "need", out |-> o, pos |-> p]
    ELSE LET bfinal == Bit(s, p)
             btype == Bit(s, p + 1) + 2 * Bit(s, p + 2)
             q == (p + 3 + 7) \div 8
         IN
    IF btype = 0 THEN
        IF q + 4 > Len(s) THEN [st |-> "need", out |-> o, pos |-> p]
        ELSE LET len == s[q + 1] + 256 * s[q + 2]
                 nlen == s[q + 3] + 256 * s[q + 4]
             IN
        IF len + nlen # 65535 THEN [st |-> "error", out |-> o, pos |-> p]
        ELSE IF Len(s) - (q + 4) < len
            THEN [st |-> "need", out |-> o \o SliceFrom(s, q + 4), pos |-> p]
        ELSE IF bfinal = 1
            THEN [st |-> "end", out |-> o \o Slice(s, q + 4, q + 4 + len),
                  pos |-> 8 * (q + 4 + len)]
        ELSE InflateBlocks(s, 8 * (q + 4 + len), o \o Slice(s, q + 4, q + 4 + len))
    ELSE IF btype = 1 THEN InflateFixed(s, p + 3, o, bfinal)
    ELSE IF btype = 2 THEN [st |-> "unmodelled", out |-> o, pos |-> p]
    ELSE [st |-> "error", out |-> o, pos |-> p]

\* zlib.decompress(s): the two-byte zlib header, the deflate stream to its
\* end, then the Adler-32 of the output.  Input that ends early is an error;
\* bytes after the checksum are ignored.
ZlibDecompress(s) ==
    IF Len(s) < 2 THEN [st |-> "error", out |-> <<>>]
    ELSE IF s[1] % 16 # 8 \/ s[1] \div 16 > 7 \/ (256 * s[1] + s[2]) % 31 # 0
            \/ (s[2] \div 32) % 2 = 1
        THEN [st |-> "error", out |-> <<>>]
    ELSE LET r == InflateBlocks(s, 16, <<>>)
             q == (r.pos + 7) \div 8
         IN
    IF r.st = "unmodelled" THEN [st |-> "unmodelled", out |-> <<>>]
    ELSE IF r.st # "end" THEN [st |-> "error", out |-> <<>>]
    ELSE IF q + 4 > Len(s) THEN [st |-> "error", out |-> <<>>]
    ELSE IF Slice(s, q, q + 4) # AdlerBytes(r.out) THEN [st |-> "error", out |-> <<>>]
    ELSE [st |-> "ok", out |-> r.out]

\* zlib.decompressobj(-15).decompress(s): a raw deflate stream, fed once.
\* It returns the output produced so far, also when the input ends before
\* the stream does (eof stays False); only invalid data raises.
RawInflate(s) ==
    LET r == InflateBlocks(s, 0, <<>>)
    IN  [st |-> r.st, out |-> r.out, eof |-> r.st = "end"]

\* the bits of the fixed-Huffman code of literal c, first bit first
RECURSIVE CodeBits(_, _)
CodeBits(v, n) == IF n = 0 THEN <<>> ELSE Append(CodeBits(v \div 2, n - 1), v % 2)

LiteralBits(c) == IF c <= 143 THEN CodeBits(48 + c, 8) ELSE CodeBits(400 + c - 144, 9)

RECURSIVE LiteralsBits(_)
LiteralsBits(s) == IF s = <<>> THEN <<>> ELSE LiteralBits(Head(s)) \o LiteralsBits(Tail(s))

\* bits packed into bytes, first bit in the least significant place
RECURSIVE PackBits(_)
PackBits(b) ==
    IF b = <<>> THEN <<>>
    ELSE LET k == Min(8, Len(b))
             RECURSIVE Val(_)
             Val(i) == IF i > k THEN 0 ELSE b[i] * (2 ^ (i - 1)) + Val(i + 1)
         IN  <<Val(1)>> \o PackBits(SubSeq(b, k + 1, Len(b)))

\* zlib.compress(o) at the default level for an input too short to hold a
\* repeat (under 4 bytes): header 78 9c, one final fixed-Huffman block of
\* literals closed by the end-of-block code, and the Adler-32.
Compress(o) ==
    <<120, 156>> \o PackBits(<<1, 1, 0>> \o LiteralsBits(o) \o CodeBits(0, 7))
        \o AdlerBytes(o)

----------------------------------------------------------------------------
(* MemBodyExtractor: construction and decompress() *)

DeflateSearchLimit == 100

\* b'RZ'
RZ == <<82, 90>>

\* the zlib headers _find_deflate_start looks for: 78 9c, 78 da
ZlibHeaders == {<<120, 156>>, <<120, 218>>}

\* the loop of _find_deflate_start from index i on: the first i with a zlib
\* header at data[i:i+2], -1 when the loop runs out
RECURSIVE FindFrom(_, _)
FindFrom(d, i) ==
    IF i >= Min(DeflateSearchLimit, Len(d)) THEN -1
    ELSE IF Slice(d, i, i + 2) \in ZlibHeaders THEN i
    ELSE FindFrom(d, i + 1)

\* a search that would keep the last header in the window
FindDeflateStartLast(d) ==
    LET hits == {i \in 2..(Min(DeflateSearchLimit, Len(d)) - 1) :
                    Slice(d, i, i + 2) \in ZlibHeaders}
    IN  IF hits = {} THEN -1 ELSE CHOOSE i \in hits : \A j \in hits : j <= i

FindDeflateStart(d) == FindFrom(d, 2)

\* MemBodyExtractor(d): "ok" with the offset found, or the error raised
NewExtractor(d) ==
    IF Slice(d, 0, 2) # RZ THEN [st |-> "HeaderMismatch", off |-> -1]
    ELSE LET off == FindDeflateStart(d) IN
         IF off = -1 THEN [st |-> "StreamNotFound", off |-> -1]
         ELSE [st |-> "ok", off |-> off]

\* decompress() without its first attempt
DecompressStreamRawOnly(stream) ==
    LET r == RawInflate(stream)
    IN  IF r.st = "error"
            THEN [st |-> "DecompressionFailed", out |-> <<>>, via |-> "none"]
        ELSE [st |-> "ok", out |-> r.out, via |-> "raw"]

\* decompress() on the stream data[compress_offset:]: zlib first, raw deflate
\* when zlib raises, an error when raw deflate raises too
DecompressStream(stream) ==
    LET z == ZlibDecompress(stream)
        r == RawInflate(stream)
    IN  IF z.st = "ok" THEN [st |-> "ok", out |-> z.out, via |-> "zlib"]
        ELSE IF r.st = "error"
            THEN [st |-> "DecompressionFailed", out |-> <<>>, via |-> "none"]
        ELSE [st |-> "ok", out |-> r.out, via |-> "raw"]

\* the inputs: a signature, header bytes, and a zlib stream cut after `cut`
\* bytes (whole when cut is its length)
MaxHdr == 2
MaxOrig == 2
HdrBytes == {0, 120, 156, 218}
OrigBytes == {97, 200}
Sigs == {RZ, <<82, 88>>, <<82>>}
Pad(n) == [i \in 1..n |-> 0]
Headers == SeqsUpTo(HdrBytes, MaxHdr)
              \cup {Pad(DeflateSearchLimit - 3), Pad(DeflateSearchLimit - 2)}
Origs == SeqsUpTo(OrigBytes, MaxOrig)

\* the decoders above decide the input (no dynamic block, no length code)
Modelled(d) ==
    LET e == NewExtractor(d)
        stream == SliceFrom(d, e.off)
    IN  e.st = "ok" =>
            /\ ZlibDecompress(stream).st # "unmodelled"
            /\ RawInflate(stream).st # "unmodelled"

BodyIdle ==
    /\ data = <<>> /\ compress_offset = -1 /\ bpc = "idle"
    /\ err = "none" /\ out = <<>> /\ built = <<>>

BatchIdle == volumes = <<>> /\ vol = 0 /\ gpc = "idle" /\ processed = <<>>

SplitIdle ==
    /\ decompressed = <<>> /\ files = <<>> /\ spc = "idle"
    /\ segments = <<>> /\ result = <<>>

IndexIdle == memfs = <<>> /\ ipc = "idle" /\ paths = <<>> /\ entries = <<>>

DlgIdle ==
    /\ filename = <<>> /\ lines = <<>> /\ line_num = 0
    /\ current_speaker = <<>> /\ results = <<>> /\ dpc = "idle"

InitBody ==
    /\ \E s \in Sigs, h \in Headers, o \in Origs :
         \E k \in 0..Len(Compress(o)) :
            /\ data = s \o h \o SubSeq(Compress(o), 1, k)
            /\ built = [sig |-> s, hdr |-> h, orig |-> o,
                        whole |-> k = Len(Compress(o))]
    /\ Modelled(data)
    /\ compress_offset = -1 /\ bpc = "new" /\ err = "none" /\ out = <<>>
    /\ BatchIdle /\ SplitIdle /\ IndexIdle /\ DlgIdle

\* MemBodyExtractor.__init__, with _find_deflate_start
Construct ==
    /\ bpc = "new"
    /\ LET e == NewExtractor(data) IN
         /\ compress_offset' = e.off
         /\ bpc' = IF e.st = "ok" THEN "constructed" ELSE "raised"
         /\ err' = IF e.st = "ok" THEN "none" ELSE e.st
    /\ UNCHANGED <<data, out, built, batchVars, splitVars, indexVars, dlgVars>>

\* MemBodyExtractor.decompress
Decompress ==
    /\ bpc = "constructed"
    /\ LET r == DecompressStream(SliceFrom(data, compress_offset)) IN
         /\ bpc' = IF r.st = "ok" THEN "returned" ELSE "raised"
         /\ err' = IF r.st = "ok" THEN "none" ELSE r.st
         /\ out' = r.out
    /\ UNCHANGED <<data, compress_offset, built, batchVars, splitVars, indexVars, dlgVars>>

NextBody == Construct \/ Decompress

SpecBody == InitBody /\ [][NextBody]_vars

(* Claims about MemBodyExtractor, checked under SpecBody *)

\* the offsets i, 2 <= i < 100, at which data holds 78 9c or 78 da
HeaderOffsets ==
    {i \in 2..99 : i + 2 <= Len(data) /\ data[i + 1] = 120
                                       /\ data[i + 2] \in {156, 218}}

StartsWithSignature == Len(data) >= 2 /\ data[1] = 82 /\ data[2] = 90

\* C7: construction on input that starts with the signature succeeds exactly
\* when a zlib header (78 9c or 78 da) starts at some index i, 2 <= i < 100,
\* and then compress_offset is the smallest such index; with no such index it
\* fails with StreamNotFound, and input that does not start with the
\* signature fails with HeaderMismatch whatever follows.
C7_FirstHeaderInWindow ==
    bpc # "new" =>
        /\ ~StartsWithSignature => bpc = "raised" /\ err = "HeaderMismatch"
        /\ StartsWithSignature /\ HeaderOffsets = {} =>
               bpc = "raised" /\ err = "StreamNotFound"
        /\ StartsWithSignature /\ HeaderOffsets # {} =>
               /\ err \notin {"HeaderMismatch", "StreamNotFound"}
               /\ compress_offset \in HeaderOffsets
               /\ \A j \in HeaderOffsets : compress_offset <= j

\* C7's case: the header sits at index 99, the last of the window
C7_Witness ==
    /\ bpc = "constructed" /\ compress_offset = 99
    /\ Len(built.hdr) = 97

\* a header holds a zlib header of its own
HasZlibHeader(h) == \E i \in 1..(Len(h) - 1) : <<h[i], h[i + 1]>> \in ZlibHeaders

BuiltWhole == built.sig = RZ /\ built.whole

\* C4 as stated: whatever the header bytes between the signature and the
\* stream, construction and decompress() give back the original bytes.
C4_RoundTripAnyHeader ==
    BuiltWhole /\ bpc \in {"returned", "raised"} =>
        bpc = "returned" /\ out = built.orig

\* C4, amended: the round trip gives back the original bytes when the header
\* bytes are at most 97 long and hold no 78 9c and no 78 da; the stream is
\* then found at offset 2 + the header's length.
C4_RoundTripCleanHeader ==
    BuiltWhole /\ Len(built.hdr) <= 97 /\ ~HasZlibHeader(built.hdr) =>
        /\ bpc # "raised"
        /\ bpc # "new" => compress_offset = 2 + Len(built.hdr)
        /\ bpc = "returned" => out = built.orig

\* C4's case: a two-byte original behind a non-empty header ending in 78
C4_Witness ==
    /\ BuiltWhole /\ bpc = "returned" /\ out = built.orig
    /\ Len(built.orig) = 2 /\ built.hdr = <<0, 120>>

\* C5: what decompress() returns is the whole output of one decompression
\* that succeeded: zlib's when zlib succeeds, else raw deflate's, read to the
\* end of its stream; never the output of a stream that was cut short.
C5_NoPartialOutput ==
    bpc = "returned" =>
        LET stream == SliceFrom(data, compress_offset)
            z == ZlibDecompress(stream)
            r == RawInflate(stream)
        IN  \/ z.st = "ok" /\ out = z.out
            \/ z.st # "ok" /\ r.eof /\ out = r.out

----------------------------------------------------------------------------
(* extract_game_files: the loop over the fsroot directories.  A volume is    *)
(* whether its common/script.memfs and script.membody exist, and the         *)
(* membody's bytes.  Nothing in the loop catches an exception.               *)

MaxVolumes == 3

SampleBodies ==
    { RZ \o Compress(<<97>>),                  \* decodes
      <<82, 88>> \o Compress(<<97>>),          \* wrong signature
      RZ \o <<0>>,                             \* no zlib header
      RZ \o SubSeq(Compress(<<>>), 1, 5) }     \* neither decoder accepts it

VolumeKinds ==
    {[scripts |-> FALSE, membody |-> <<>>]}
        \cup {[scripts |-> TRUE, membody |-> b] : b \in SampleBodies}

\* MemBodyExtractor(membody_data) then extractor.decompress()
VolumeOutcome(v) ==
    LET e == NewExtractor(v.membody) IN
    IF e.st # "ok" THEN [st |-> e.st, out |-> <<>>]
    ELSE LET r == DecompressStream(SliceFrom(v.membody, e.off))
         IN  [st |-> r.st, out |-> r.out]

InitBatch ==
    /\ volumes \in SeqsUpTo(VolumeKinds, MaxVolumes)
    /\ vol = 1 /\ gpc = "loop" /\ processed = <<>>
    /\ BodyIdle /\ SplitIdle /\ IndexIdle /\ DlgIdle

\* an iteration that ends at one of the two `continue`s
SkipVolume ==
    /\ gpc = "loop" /\ vol <= Len(volumes)
    /\ ~volumes[vol].scripts
    /\ vol' = vol + 1
    /\ UNCHANGED <<volumes, gpc, processed, bodyVars, splitVars, indexVars, dlgVars>>

\* an iteration that runs to its end
ProcessVolume ==
    /\ gpc = "loop" /\ vol <= Len(volumes)
    /\ volumes[vol].scripts
    /\ VolumeOutcome(volumes[vol]).st = "ok"
    /\ processed' = (vol :> VolumeOutcome(volumes[vol]).out) @@ processed
    /\ vol' = vol + 1
    /\ UNCHANGED <<volumes, gpc, bodyVars, splitVars, indexVars, dlgVars>>

\* an iteration in which the extractor raises: the exception leaves the loop
\* and the function
AbortBatch ==
    /\ gpc = "loop" /\ vol <= Len(volumes)
    /\ volumes[vol].scripts
    /\ VolumeOutcome(volumes[vol]).st # "ok"
    /\ gpc' = "raised"
    /\ UNCHANGED <<volumes, vol, processed, bodyVars, splitVars, indexVars, dlgVars>>

\* the loop is over (at once when there is no fsroot directory)
FinishBatch ==
    /\ gpc = "loop" /\ vol > Len(volumes)
    /\ gpc' = "done"
    /\ UNCHANGED <<volumes, vol, processed, bodyVars, splitVars, indexVars, dlgVars>>

NextBatch == SkipVolume \/ ProcessVolume \/ AbortBatch \/ FinishBatch

SpecBatch == InitBatch /\ [][NextBatch]_vars

\* C3: a volume whose extractor fails stops that volume only: once
\* extract_game_files is over, every volume of the batch that has its script
\* files and decodes has been processed, before or after a failing one.
C3_OtherVolumesUnaffected ==
    gpc \in {"done", "raised"} =>
        \A i \in 1..Len(volumes) :
            volumes[i].scripts /\ VolumeOutcome(volumes[i]).st = "ok"
                => i \in DOMAIN processed

----------------------------------------------------------------------------
(* MemBodyExtractor.find_file_data *)

\* b'\xef\xbb\xbf'
BOM == <<239, 187, 191>>

\* '_TOP]', '_START]', '_END]', '.tat'
TOP == <<95, 84, 79, 80, 93>>
START == <<95, 83, 84, 65, 82, 84, 93>>
END == <<95, 69, 78, 68, 93>>
DotTat == <<46, 116, 97, 116>>

\* '_TOP]' in header or '_START]' in header or '_END]' in header
IsSceneHeader(header) ==
    Contains(header, TOP) \/ Contains(header, START) \/ Contains(header, END)

\* the inner `while end < len(d) and d[end] != ']'` loops: the offset of the
\* first ']' at or after e, len(d) when there is none
RECURSIVE ScanClose(_, _)
ScanClose(d, e) ==
    IF e < Len(d) /\ d[e + 1] # 93 THEN ScanClose(d, e + 1) ELSE e

\* a scene header opens at offset p
HeaderAt(d, p) ==
    /\ p < Len(d) /\ d[p + 1] = 91
    /\ ScanClose(d, p + 1) < Len(d)
    /\ IsSceneHeader(DecodeIgnore(Slice(d, p, ScanClose(d, p + 1) + 1)))

\* the `while next_pos < len(d)` loop: the offset of the next scene header at
\* or after n, len(d) when there is none
RECURSIVE ScanNext(_, _)
ScanNext(d, n) ==
    IF n >= Len(d) THEN n
    ELSE IF HeaderAt(d, n) THEN n
    ELSE ScanNext(d, n + 1)

\* scene_name.split('_')[0]
FirstToken(name) ==
    IF Find(name, <<95>>) = -1 THEN name ELSE SubSeq(name, 1, Find(name, <<95>>))

\* the `for f in files` loop from entry i on: the path of the first entry
\* that holds the token, stripped of its leading slashes; dflt when none does
\* a loop without its `break`: the last entry that holds the token wins
MatchLast(fs, i, token, dflt) ==
    LET hits == {j \in i..Len(fs) : Contains(fs[j].path, token)}
    IN  IF hits = {} THEN dflt
        ELSE LStripChars(fs[CHOOSE j \in hits : \A k \in hits : k <= j].path, {47})

RECURSIVE MatchFrom(_, _, _, _)
MatchFrom(fs, i, token, dflt) ==
    IF i > Len(fs) THEN dflt
    ELSE IF Contains(fs[i].path, token) THEN LStripChars(fs[i].path, {47})
    ELSE MatchFrom(fs, i + 1, token, dflt)

\* the filename of the segment a header opens
ResolveFilename(header, fs) ==
    LET scene_name == StripChars(header, {91, 93})
    IN  MatchFrom(fs, 1, FirstToken(scene_name), scene_name \o DotTat)

\* result[filename] = file_data on a dict kept as its entries in insertion
\* order: a key already there keeps its place and takes the new value
DictSet(d, k, v) ==
    IF \E i \in 1..Len(d) : d[i].key = k
        THEN [i \in 1..Len(d) |-> IF d[i].key = k THEN [key |-> k, value |-> v]
                                  ELSE d[i]]
    ELSE Append(d, [key |-> k, value |-> v])

\* the outer `while pos < len(d)` loop from pos on: the slices it cuts
RECURSIVE ScanFrom(_, _, _)
ScanFrom(d, fs, pos) ==
    IF pos >= Len(d) THEN <<>>
    ELSE IF HeaderAt(d, pos) THEN
        LET end == ScanClose(d, pos + 1)
            header == DecodeIgnore(Slice(d, pos, end + 1))
            next_pos == ScanNext(d, end + 1)
        IN  <<[header |-> header, start |-> pos, end |-> next_pos,
               filename |-> ResolveFilename(header, fs),
               file_data |-> Slice(d, pos, next_pos)]>>
                \o ScanFrom(d, fs, next_pos)
    ELSE ScanFrom(d, fs, pos + 1)

\* pos = 3 if decompressed[:3] == BOM else 0
StartPos(d) == IF Slice(d, 0, 3) = BOM THEN 3 ELSE 0

\* the slices find_file_data cuts, in order
Cuts(d, fs) == ScanFrom(d, fs, StartPos(d))

\* the dict find_file_data fills from them.  A value is the segment's bytes;
\* start and end are the bounds the bytes were sliced at.
RECURSIVE FillDict(_, _, _)
FillDict(cuts, i, d) ==
    IF i > Len(cuts) THEN d
    ELSE FillDict(cuts, i + 1,
                  DictSet(d, cuts[i].filename,
                          [file_data |-> cuts[i].file_data,
                           start |-> cuts[i].start, end |-> cuts[i].end]))

\* the inputs: a payload put together from a few pieces behind an optional
\* BOM, and index entries (of which find_file_data reads the path)
MaxChunks == 3
MaxFiles == 2

Chunks ==
    { <<91, 65>> \o TOP,        \* [A_TOP]
      <<91, 66>> \o START,      \* [B_START]
      <<91, 65>> \o END,        \* [A_END]
      <<91, 120, 93>>,          \* [x]
      <<120>>,                  \* x
      <<255>>,                  \* a byte that is no UTF-8
      <<91>> }                  \* [

Paths ==
    { <<47, 65, 66>> \o DotTat,             \* /AB.tat
      <<47, 115, 47, 66>> \o DotTat }       \* /s/B.tat

RECURSIVE Flatten(_)
Flatten(ss) == IF ss = <<>> THEN <<>> ELSE Head(ss) \o Flatten(Tail(ss))

InitSplit ==
    /\ \E cs \in SeqsUpTo(Chunks, MaxChunks), bom \in {<<>>, BOM} :
          decompressed = bom \o Flatten(cs)
    /\ \E ps \in SeqsUpTo(Paths, MaxFiles) :
          files = [i \in 1..Len(ps) |-> [path |-> ps[i]]]
    /\ spc = "new" /\ segments = <<>> /\ result = <<>>
    /\ BodyIdle /\ BatchIdle /\ IndexIdle /\ DlgIdle

\* find_file_data(decompressed, files)
FindFileData ==
    /\ spc = "new"
    /\ segments' = Cuts(decompressed, files)
    /\ result' = FillDict(Cuts(decompressed, files), 1, <<>>)
    /\ spc' = "returned"
    /\ UNCHANGED <<decompressed, files, bodyVars, batchVars, indexVars, dlgVars>>

NextSplit == FindFileData

SpecSplit == InitSplit /\ [][NextSplit]_vars

(* Claims about find_file_data, checked under SpecSplit *)

\* the offsets at which a scene header opens, from the start position on
Markers == {p \in StartPos(decompressed)..(Len(decompressed) - 1) :
               HeaderAt(decompressed, p)}

FirstMarker == CHOOSE p \in Markers : \A q \in Markers : p <= q

\* C1: the segments find_file_data returns are contiguous and ordered: each
\* ends where the next starts, the first starts at the first scene header,
\* the last ends at the end of the payload.
C1_SegmentsContiguous ==
    spc = "returned" /\ Markers # {} =>
        /\ result # <<>>
        /\ result[1].value.start = FirstMarker
        /\ result[Len(result)].value.end = Len(decompressed)
        /\ \A i \in 1..(Len(result) - 1) :
               result[i].value.end = result[i + 1].value.start

\* the payload is [A_TOP]...[B_START]... with no other scene header
TwoScenes ==
    /\ Cardinality(Markers) = 2
    /\ FirstMarker = StartPos(decompressed)
    /\ \A p \in Markers :
         LET marker == Slice(decompressed, p, ScanClose(decompressed, p + 1) + 1)
         IN  IF p = FirstMarker THEN marker = <<91, 65>> \o TOP
             ELSE marker = <<91, 66>> \o START

\* C2: for a payload [A_TOP]...[B_START]... with no other scene header, and
\* whatever the index entries, the output holds two segments: the bytes from
\* [A_TOP] to [B_START], then the bytes from [B_START] to the end.
C2_TwoSegments ==
    spc = "returned" /\ TwoScenes =>
        LET second == CHOOSE p \in Markers : p # FirstMarker IN
        /\ Len(result) = 2
        /\ result[1].value.file_data = Slice(decompressed, FirstMarker, second)
        /\ result[2].value.file_data = SliceFrom(decompressed, second)

\* the header text of a segment without its brackets
Stripped(seg) == StripChars(seg.header, {91, 93})

\* its first underscore-delimited token: the longest prefix without '_'
Token(seg) ==
    LET t == Stripped(seg)
        n == CHOOSE k \in 0..Len(t) :
                /\ \A j \in 1..k : t[j] # 95
                /\ (k < Len(t) => t[k + 1] = 95)
    IN  SubSeq(t, 1, n)

\* the index entries, by position, whose path contains the token
Matching(seg) == {j \in 1..Len(files) : Contains(files[j].path, Token(seg))}

\* a path without its leading slashes
Unslashed(p) ==
    LET n == CHOOSE k \in 0..Len(p) :
                /\ \A j \in 1..k : p[j] = 47
                /\ (k < Len(p) => p[k + 1] # 47)
    IN  SubSeq(p, n + 1, Len(p))

\* C11: filename resolution is first-match-wins in index scan order: the
\* filename of a segment is the path, without its leading slashes, of the
\* first index entry whose path contains the first underscore-delimited
\* token of the bracket-stripped header text, and it is the bracket-stripped
\* header text plus '.tat' when no entry's path contains that token.
C11_FirstMatchWins ==
    spc = "returned" =>
        \A i \in 1..Len(segments) :
            LET m == Matching(segments[i]) IN
            /\ m = {} => segments[i].filename = Stripped(segments[i]) \o DotTat
            /\ m # {} =>
                  segments[i].filename =
                      Unslashed(files[CHOOSE j \in m : \A k \in m : j <= k].path)
            /\ \E e \in 1..Len(result) : result[e].key = segments[i].filename

\* C11's case: two entries with different paths hold a segment's token, and
\* the segment is named after the first
C11_Witness ==
    /\ spc = "returned"
    /\ \E i \in 1..Len(segments) :
          /\ Matching(segments[i]) = {1, 2}
          /\ files[1].path # files[2].path
          /\ segments[i].filename = Unslashed(files[1].path)

----------------------------------------------------------------------------
(* MemFSParser._parse *)

\* the offset the metadata is read at, before the path
MetadataWindow == 16

\* b'\x2f\x00': '/' in UTF-16LE
WideSlash == <<47, 0>>

\* '.tat', '.json', '.armd'
Suffixes == {DotTat, <<46, 106, 115, 111, 110>>, <<46, 97, 114, 109, 100>>}

\* the `while end + 1 < len(data) and data[end:end+2] != b'\x00\x00'` loop
RECURSIVE PathEnd(_, _)
PathEnd(d, end) ==
    IF end + 1 < Len(d) /\ Slice(d, end, end + 2) # <<0, 0>>
        THEN PathEnd(d, end + 2)
    ELSE end

\* bytes.decode('utf-16le') of an even number of bytes: the code units, a
\* surrogate pair joined into its code point; a lone surrogate does not decode
RECURSIVE DecodeUtf16From(_, _)
DecodeUtf16From(b, i) ==
    IF i + 1 > Len(b) THEN [ok |-> TRUE, text |-> <<>>]
    ELSE LET u == b[i] + 256 * b[i + 1] IN
    IF u < 55296 \/ u > 57343 THEN
        LET rest == DecodeUtf16From(b, i + 2)
        IN  [ok |-> rest.ok, text |-> <<u>> \o rest.text]
    ELSE IF u <= 56319 /\ i + 3 <= Len(b)
            /\ b[i + 2] + 256 * b[i + 3] >= 56320
            /\ b[i + 2] + 256 * b[i + 3] <= 57343 THEN
        LET rest == DecodeUtf16From(b, i + 4)
            lo == b[i + 2] + 256 * b[i + 3]
        IN  [ok |-> rest.ok,
             text |-> <<65536 + (u - 55296) * 1024 + (lo - 56320)>> \o rest.text]
    ELSE [ok |-> FALSE, text |-> <<>>]

DecodeUtf16(b) == DecodeUtf16From(b, 1)

\* the first pass, from search_pos on: the (offset, path) pairs it appends
RECURSIVE FindPaths(_, _)
FindPaths(d, search_pos) ==
    IF search_pos >= Len(d) THEN <<>>
    ELSE IF Slice(d, search_pos, search_pos + 2) = WideSlash THEN
        LET end == PathEnd(d, search_pos)
            dec == DecodeUtf16(Slice(d, search_pos, end))
        IN  (IF dec.ok /\ \E x \in Suffixes : Contains(dec.text, x)
                THEN <<[offset |-> search_pos, path |-> dec.text]>>
             ELSE <<>>)
                \o FindPaths(d, end)
    ELSE FindPaths(d, search_pos + 1)

\* struct.unpack('<H', b)[0], and struct.unpack('<I', b)[0] as its low and
\* high 16-bit halves (the value is low + 65536 * high)
U16(b) == b[1] + 256 * b[2]
U32(b) == [low |-> b[1] + 256 * b[2], high |-> b[3] + 256 * b[4]]

\* a second pass that would end at a path whose metadata offset is negative
StopAtMalformed(ps, i) == Len(ps) + 1

\* what the second pass does with a path whose metadata offset is negative:
\* 'continue', on to the next path
SkipMalformed(ps, i) == i + 1

\* the second pass, from the i-th path on: the entries it appends
RECURSIVE ReadEntries(_, _, _)
ReadEntries(d, ps, i) ==
    IF i > Len(ps) THEN <<>>
    ELSE LET check_pos == ps[i].offset - MetadataWindow IN
    IF check_pos < 0 THEN ReadEntries(d, ps, SkipMalformed(ps, i))
    ELSE <<[path |-> ps[i].path,
            metadata_offset |-> check_pos,
            val1 |-> U32(Slice(d, check_pos, check_pos + 4)),
            val2 |-> U32(Slice(d, check_pos + 4, check_pos + 8)),
            path_prefix |-> U16(Slice(d, check_pos + 8, check_pos + 10))]>>
            \o ReadEntries(d, ps, i + 1)

\* the inputs: an index buffer put together from a few pieces
MaxIndexChunks == 4

IndexChunks ==
    { <<47, 0, 46, 0, 116, 0, 97, 0, 116, 0>>,   \* '/.tat' in UTF-16LE
      <<47, 0, 120, 0>>,                         \* '/x' in UTF-16LE
      <<0, 0>>,                                  \* the terminator
      <<0, 216>>,                                \* a lone surrogate
      <<7>>,                                     \* one byte
      <<136, 52, 3, 4, 5, 6, 7, 200>> }          \* eight bytes

InitIndex ==
    /\ \E cs \in SeqsUpTo(IndexChunks, MaxIndexChunks) : memfs = Flatten(cs)
    /\ ipc = "new" /\ paths = <<>> /\ entries = <<>>
    /\ BodyIdle /\ BatchIdle /\ SplitIdle /\ DlgIdle

\* MemFSParser(memfs_data): _parse
Parse ==
    /\ ipc = "new"
    /\ paths' = FindPaths(memfs, 0)
    /\ entries' = ReadEntries(memfs, FindPaths(memfs, 0), 1)
    /\ ipc' = "parsed"
    /\ UNCHANGED <<memfs, bodyVars, batchVars, splitVars, dlgVars>>

NextIndex == Parse

SpecIndex == InitIndex /\ [][NextIndex]_vars

(* Claims about MemFSParser, checked under SpecIndex *)

\* the text of the UTF-16LE string that starts at offset p and runs to the
\* first two-byte null at an even distance, or to the end of the buffer
WideStringAt(p) ==
    LET stops == {e \in p..Len(memfs) :
                     /\ (e - p) % 2 = 0
                     /\ (e + 1 >= Len(memfs) \/ (memfs[e + 1] = 0 /\ memfs[e + 2] = 0))}
        end == CHOOSE e \in stops : \A f \in stops : e <= f
    IN  DecodeUtf16(Slice(memfs, p, end)).text

----------------------------------------------------------------------------
(* TATParser.extract_dialogue *)

\* the characters str.strip() and str.rstrip() remove
Whitespace ==
    {9, 10, 11, 12, 13, 28, 29, 30, 31, 32, 133, 160, 5760, 8232, 8233, 8239,
     8287, 12288} \cup (8192..8202)

Strip(s) == StripChars(s, Whitespace)
RStrip(s) == RStripChars(s, Whitespace)

\* s.replace(t, '')
RECURSIVE Remove(_, _)
Remove(s, t) ==
    IF Len(s) < Len(t) THEN s
    ELSE IF StartsWith(s, t) THEN Remove(SubSeq(s, Len(t) + 1, Len(s)), t)
    ELSE <<Head(s)>> \o Remove(Tail(s), t)

\* sep.join(parts)
RECURSIVE Join(_, _)
Join(parts, sep) ==
    IF parts = <<>> THEN <<>>
    ELSE IF Len(parts) = 1 THEN parts[1]
    ELSE parts[1] \o sep \o Join(Tail(parts), sep)

\* the value None of current_speaker (no text holds a negative code point)
None == <<-1>>

\* the glyphs: speaker brackets, quotation marks
SpeakerOpen == <<65371>>
SpeakerClose == <<65373>>
QuoteOpen == <<12300>>
QuoteClose == <<12301>>

\* '//', '<', '['
Comment == <<47, 47>>
Less == <<60>>
Bracket == <<91>>

\* '<KW>', '<WinClear>', '<WinClear ON>', '<WinClear OFF>', '</n>', '<TW'
Tags ==
    << <<60, 75, 87, 62>>,
       <<60, 87, 105, 110, 67, 108, 101, 97, 114, 62>>,
       <<60, 87, 105, 110, 67, 108, 101, 97, 114, 32, 79, 78, 62>>,
       <<60, 87, 105, 110, 67, 108, 101, 97, 114, 32, 79, 70, 70, 62>>,
       <<60, 47, 110, 62>>,
       <<60, 84, 87>> >>

\* _has_japanese: any(0x3040 <= ord(c) <= 0x9FFF for c in text)
HasJapanese(text) == \E i \in 1..Len(text) : text[i] >= 12352 /\ text[i] <= 40959

\* the `for tag in [...]` loop from the i-th tag on
RECURSIVE RemoveTags(_, _)
RemoveTags(text, i) ==
    IF i > Len(Tags) THEN text ELSE RemoveTags(Remove(text, Tags[i]), i + 1)

\* the context loop `for i in range(line_num - 1, max(0, line_num - 3), -1)`
\* from index i down to stop (excluded): the lines it collects
RECURSIVE ContextLines(_, _, _, _)
ContextLines(ls, i, stop, acc) ==
    IF i <= stop THEN acc
    ELSE LET ctx_line == Strip(ls[i + 1])
             acc2 == IF ctx_line # <<>> /\ ~StartsWith(ctx_line, Comment)
                         THEN <<ctx_line>> \o acc ELSE acc
         IN  IF Len(acc2) >= 2 THEN acc2 ELSE ContextLines(ls, i - 1, stop, acc2)

\* '\n'.join(context_lines) for the line at index n
BuildContext(ls, n) == Join(ContextLines(ls, n - 1, Max(0, n - 3), <<>>), <<10>>)

\* _get_scene_header: the first of the first 20 lines that starts with '['
\* and holds ']', stripped; '' when there is none
RECURSIVE SceneFrom(_, _)
SceneFrom(ls, i) ==
    IF i > Min(20, Len(ls)) THEN <<>>
    ELSE IF StartsWith(ls[i], Bracket) /\ Contains(ls[i], <<93>>) THEN Strip(ls[i])
    ELSE SceneFrom(ls, i + 1)

GetSceneHeader(ls) == SceneFrom(ls, 1)

\* the three tests of the loop body, on the right-stripped line
IsSpeakerLine(line) == StartsWith(line, SpeakerOpen) /\ Contains(line, SpeakerClose)

IsQuoteLine(line) == Contains(line, QuoteOpen) /\ Contains(line, QuoteClose)

IsNarrativeCandidate(line) ==
    /\ ~StartsWith(line, Comment) /\ ~StartsWith(line, Less)
    /\ ~StartsWith(line, SpeakerOpen) /\ HasJapanese(line)

\* the text between the first quotation marks, stripped ('' when the closing
\* mark does not follow the opening one)
QuotedText(line) ==
    LET start == Find(line, QuoteOpen) + 1
        end == Find(line, QuoteClose)
    IN  IF start > 0 /\ end > start THEN Strip(Slice(line, start, end)) ELSE <<>>

\* the quoted line gives a record
QuoteAccepted(line) ==
    LET start == Find(line, QuoteOpen) + 1
        end == Find(line, QuoteClose)
    IN  /\ start > 0 /\ end > start
        /\ HasJapanese(QuotedText(line)) /\ Len(QuotedText(line)) >= 2

\* the narrative line gives a record
NarrativeAccepted(line) ==
    LET cleaned_text == Strip(RemoveTags(line, 1))
    IN  /\ Len(cleaned_text) >= 4 /\ Len(cleaned_text) < 200
        /\ HasJapanese(cleaned_text) /\ ~StartsWith(cleaned_text, Bracket)

\* current_speaker after a quoted line
KeepSpeakerUnlessAccepted(cs, accepted) == IF accepted THEN None ELSE cs

SpeakerAfterQuote(cs, accepted) == None

\* the inputs: a text of a few lines
MaxLines == 4

LineKinds ==
    { <<65371, 78, 65373, 13>>,                               \* {N} and a CR
      <<12300, 32, 12371, 12435, 12301, 60, 75, 87, 62>>,     \* a quoted line
      <<12300, 97, 98, 12301>>,                               \* quoted 'ab'
      <<12300, 12371, 12301>>,                                \* quoted, one kana
      <<12300, 12549, 12550, 12301>>,                         \* quoted U+3105 U+3106
      <<24444, 22899, 12399, 31505, 60, 75, 87, 62>>,         \* narrative
      <<47, 47, 99>>,                                         \* //c
      <<>>,                                                   \* an empty line
      <<32, 97, 98, 99>> }                                    \* ' abc'

InitDlg ==
    /\ \E n \in 1..MaxLines : lines \in [1..n -> LineKinds]
    /\ filename = <<97, 46, 116, 97, 116>>
    /\ line_num = 0 /\ current_speaker = None /\ results = <<>> /\ dpc = "loop"
    /\ BodyIdle /\ BatchIdle /\ SplitIdle /\ IndexIdle

\* line = line.rstrip() of the line the loop is at
Line == RStrip(lines[line_num + 1])

InLoop == dpc = "loop" /\ line_num < Len(lines)

\* an iteration on a speaker line
SpeakerLine ==
    /\ InLoop /\ IsSpeakerLine(Line)
    /\ current_speaker' = StripChars(Line, {65371, 65373})
    /\ line_num' = line_num + 1
    /\ UNCHANGED <<filename, lines, results, dpc>>
    /\ UNCHANGED <<bodyVars, batchVars, splitVars, indexVars>>

\* an iteration on a line with both quotation marks
QuoteLine ==
    /\ InLoop /\ ~IsSpeakerLine(Line) /\ IsQuoteLine(Line)
    /\ results' =
         IF QuoteAccepted(Line)
             THEN Append(results,
                         [file |-> filename,
                          line |-> line_num + 1,
                          speaker |-> IF current_speaker = None THEN <<>>
                                      ELSE current_speaker,
                          text |-> QuotedText(Line),
                          full_line |-> Line,
                          context |-> BuildContext(lines, line_num),
                          scene |-> GetSceneHeader(lines)])
         ELSE results
    /\ current_speaker' = SpeakerAfterQuote(current_speaker, QuoteAccepted(Line))
    /\ line_num' = line_num + 1
    /\ UNCHANGED <<filename, lines, dpc>>
    /\ UNCHANGED <<bodyVars, batchVars, splitVars, indexVars>>

\* an iteration on a line that passes the tests of the elif
NarrativeLine ==
    /\ InLoop /\ ~IsSpeakerLine(Line) /\ ~IsQuoteLine(Line)
    /\ IsNarrativeCandidate(Line)
    /\ results' =
         IF NarrativeAccepted(Line)
             THEN Append(results,
                         [file |-> filename,
                          line |-> line_num + 1,
                          speaker |-> <<>>,
                          text |-> Strip(RemoveTags(Line, 1)),
                          full_line |-> Line,
                          context |-> BuildContext(lines, line_num),
                          scene |-> GetSceneHeader(lines),
                          type |-> "narrative"])
         ELSE results
    /\ line_num' = line_num + 1
    /\ UNCHANGED <<filename, lines, current_speaker, dpc>>
    /\ UNCHANGED <<bodyVars, batchVars, splitVars, indexVars>>

\* an iteration on any other line
OtherLine ==
    /\ InLoop /\ ~IsSpeakerLine(Line) /\ ~IsQuoteLine(Line)
    /\ ~IsNarrativeCandidate(Line)
    /\ line_num' = line_num + 1
    /\ UNCHANGED <<filename, lines, current_speaker, results, dpc>>
    /\ UNCHANGED <<bodyVars, batchVars, splitVars, indexVars>>

\* return results
ReturnResults ==
    /\ dpc = "loop" /\ line_num = Len(lines)
    /\ dpc' = "returned"
    /\ UNCHANGED <<filename, lines, line_num, current_speaker, results>>
    /\ UNCHANGED <<bodyVars, batchVars, splitVars, indexVars>>

NextDlg == SpeakerLine \/ QuoteLine \/ NarrativeLine \/ OtherLine \/ ReturnResults

SpecDlg == InitDlg /\ [][NextDlg]_vars

(* Claims about extract_dialogue, checked under SpecDlg.  Line k below is    *)
(* lines[k], the line the records call k (1-based).                          *)

\* the largest member of a non-empty set of numbers
Largest(S) == CHOOSE x \in S : \A y \in S : y <= x

IsDialogueRecord(r) == "type" \notin DOMAIN r

SpeakerLineAt(k) == IsSpeakerLine(RStrip(lines[k]))

QuoteLineAt(k) == ~SpeakerLineAt(k) /\ IsQuoteLine(RStrip(lines[k]))

\* the text between the first opening glyph o and the first closing glyph c
Enclosed(line, o, c) == Slice(line, Find(line, o) + 1, Find(line, c))

\* C6: a speaker line followed at once by a quoted line whose text is
\* accepted gives exactly one record for the quoted line, of type dialogue,
\* with the enclosed name as speaker, the trimmed quoted text as text and the
\* 1-based line number; and every record has a type, dialogue or narrative.
C6_SpeakerThenQuote ==
    /\ \A k \in 1..(line_num - 1) :
         SpeakerLineAt(k) /\ QuoteLineAt(k + 1)
            /\ QuoteAccepted(RStrip(lines[k + 1])) =>
                /\ Cardinality({i \in 1..Len(results) : results[i].line = k + 1}) = 1
                /\ \A i \in 1..Len(results) : results[i].line = k + 1 =>
                     /\ "type" \in DOMAIN results[i]
                     /\ results[i].type = "dialogue"
                     /\ results[i].speaker = Enclosed(lines[k], SpeakerOpen, SpeakerClose)
                     /\ results[i].text =
                            Strip(Enclosed(lines[k + 1], QuoteOpen, QuoteClose))
    /\ \A i \in 1..Len(results) :
         "type" \in DOMAIN results[i]
            /\ results[i].type \in {"dialogue", "narrative"}

\* the text set by the last speaker line among lines a..b, None when there
\* is no speaker line among them
LastSpeaker(a, b) ==
    LET S == {k \in a..b : SpeakerLineAt(k)}
    IN  IF S = {} THEN None
        ELSE StripChars(RStrip(lines[Largest(S)]), {65371, 65373})

OrEmpty(name) == IF name = None THEN <<>> ELSE name

\* the line of the last dialogue record before line n, 0 when there is none
PreviousRecord(n) ==
    Largest({0} \cup {results[i].line : i \in {j \in 1..Len(results) :
                IsDialogueRecord(results[j]) /\ results[j].line < n}})

\* the last line before line n that holds both quotation marks (and is no
\* speaker line), 0 when there is none
PreviousQuote(n) == Largest({0} \cup {k \in 1..(n - 1) : QuoteLineAt(k)})

\* C9 as stated: the speaker of a dialogue record is the name of the last
\* speaker line after the previous dialogue record, empty if there is none,
\* whatever lines without a record lie between.
C9_SpeakerSincePreviousRecord ==
    \A i \in 1..Len(results) :
        IsDialogueRecord(results[i]) =>
            results[i].speaker =
                OrEmpty(LastSpeaker(PreviousRecord(results[i].line) + 1,
                                    results[i].line - 1))

\* C9, amended: current_speaker is None at first, is set only by a speaker
\* line and is reset by every line that holds both quotation marks, with or
\* without a record; the speaker of a dialogue record is the name of the last
\* speaker line after the previous such quoted line, empty if there is none.
C9_SpeakerSincePreviousQuote ==
    /\ dpc \in {"loop", "returned"} =>
         current_speaker = LastSpeaker(PreviousQuote(line_num + 1) + 1, line_num)
    /\ \A i \in 1..Len(results) :
         IsDialogueRecord(results[i]) =>
             results[i].speaker =
                 OrEmpty(LastSpeaker(PreviousQuote(results[i].line) + 1,
                                     results[i].line - 1))

\* C9's case: a dialogue record takes its speaker from a speaker line that
\* does not stand right before it, after an earlier quoted line was rejected
C9_Witness ==
    \E i \in 1..Len(results) :
        /\ IsDialogueRecord(results[i])
        /\ results[i].speaker = <<78>>
        /\ ~SpeakerLineAt(results[i].line - 1)
        /\ \E k \in 1..(results[i].line - 1) :
               QuoteLineAt(k) /\ ~QuoteAccepted(RStrip(lines[k]))

\* the lines before line n that are not empty when stripped and do not start
\* with '//'
ContextCandidates(n) ==
    {k \in 1..(n - 1) : Strip(lines[k]) # <<>> /\ ~StartsWith(Strip(lines[k]), Comment)}

\* the up-to-2 nearest of them, in the order of the text
NearestTwo(n) ==
    LET C == ContextCandidates(n)
    IN  IF C = {} THEN <<>>
        ELSE IF Cardinality(C) = 1 THEN <<Strip(lines[Largest(C)])>>
        ELSE <<Strip(lines[Largest(C \ {Largest(C)})]), Strip(lines[Largest(C)])>>

\* C10: the context of a record at line n is the up-to-2 nearest lines before
\* n, searched back through all earlier lines down to the first, that are
\* not empty when trimmed and do not start with '//', in their original order.
C10_ContextNearestTwo ==
    \A i \in 1..Len(results) :
        results[i].context = Join(NearestTwo(results[i].line), <<10>>)

\* a code point of Hiragana (U+3040-U+309F), Katakana (U+30A0-U+30FF) or
\* Kanji (U+4E00-U+9FFF)
InScript(c) ==
    \/ c >= 12352 /\ c <= 12447
    \/ c >= 12448 /\ c <= 12543
    \/ c >= 19968 /\ c <= 40959

\* C12: a line gives a record only if the recorded text holds a code point
\* of Hiragana, Katakana or Kanji: a text whose code points all lie outside
\* the three ranges (those in U+3100-U+4DFF too) gives no record; and a
\* quoted text shorter than 2 after trimming gives no record.
C12_RecordsHoldJapanese ==
    /\ \A i \in 1..Len(results) :
          \E j \in 1..Len(results[i].text) : InScript(results[i].text[j])
    /\ \A k \in 1..line_num :
          QuoteLineAt(k)
             /\ Len(Strip(Enclosed(lines[k], QuoteOpen, QuoteClose))) < 2 =>
                \A i \in 1..Len(results) : results[i].line # k

====
